---- MODULE Spec2Model ----
(***************************************************************************)
(* Chunk loading and caching of napari's asynchronous image pipeline:      *)
(* ChunkCache (an LRU cache bounded in bytes), ChunkLoader (synchronous or *)
(* worker-pool loads, per-source future table, cancellation, chunk_loaded  *)
(* events), QtChunkReceiver (forwards events to the layer) and the octree  *)
(* reconciliation pass OctreeChunkLoader.get_drawable_chunks with          *)
(* OctreeMultiscaleSlice.on_chunk_loaded; ChunkKey, the tile ranges of     *)
(* OctreeIntersection and the level choice of OctreeMultiscaleSlice.       *)
(* Further specifications look at one part each: the worker pool with     *)
(* loads that never finish, the cache under its two threads, the receiver  *)
(* with close(), AsyncConfig, and consecutive reconciliation passes.       *)
(*                                                                         *)
(* Array values: Lazy (0) is an array-like that is not yet in memory; a    *)
(* positive number n is the ndarray materialized for (or handed in with)   *)
(* request n.  Byte sizes are small integers.                              *)
(***************************************************************************)
EXTENDS Integers, Sequences, FiniteSets, TLC

\* ------------------------------------------------------------------ bounds
MaxRequests == 3        \* ChunkRequests created in one behaviour
NumTiles == 2           \* tiles of the octree level that can be in view
MaxSlices == 2          \* OctreeMultiscaleSlice objects created in one behaviour
CacheBytes == 2         \* ChunkCache capacity (maxsize) in bytes
NumKeys == 3            \* keys used when the cache is driven alone
MaxIndices == 1         \* length of the indices tuple of a ChunkKey
MaxGrid == 2            \* tiles on an axis of an octree level
MaxLevels == 3          \* levels of an octree

\* ------------------------------------------------------- program constants
NUM_WORKERS == 6        \* worker pool size
DELAY_TENTHS == 1       \* request.delay_seconds = 0.1, in tenths of a second
max_tiles == 5          \* tiles across the view that _get_octree_level aims for

Lazy == 0
Tiles == 1..NumTiles
Layers == {"octree", "image"}

\* request.array.nbytes of the chunk at an index: one byte, except that the
\* chunk at the last index is larger than the whole cache.
nbytes(idx) == IF idx < NumTiles THEN 1 ELSE CacheBytes + 1

\* The indices a layer asks for directly: a small chunk and the large one.
Indices == {1, NumTiles}

VARIABLES
    synchronous,    \* ChunkLoader.synchronous
    cache_enabled,  \* chunk_loader.cache.enabled, as get_drawable_chunks reads it
    chunks,         \* ChunkCache.chunks: the LRUCache, least recently used first
    requests,       \* every ChunkRequest created so far, by request number
    fstate,         \* the state of each request's Future ("none": no future)
    futures,        \* ChunkLoader.futures: source id -> list of futures
    layer_map,      \* ChunkLoader.layer_map: ids with a weak reference
    alive,          \* layers whose weak reference still resolves
    published,      \* chunk_loaded events emitted so far (request numbers)
    delivered,      \* how many of them QtChunkReceiver forwarded to the layer
    slice_id,       \* id() of the current OctreeMultiscaleSlice
    data,           \* OctreeChunk.data of each tile of the current slice
    loading,        \* OctreeChunk.loading of each tile of the current slice
    last_visible,   \* OctreeChunkLoader._last_visible
    visible,        \* get_drawable_chunks: the visible list of the pass
    pos,            \* get_drawable_chunks: next index into visible, 0 = no pass
    drawable,       \* get_drawable_chunks: the drawable list (kept after return)
    last            \* the last call made on the cache alone and its result

vars == <<synchronous, cache_enabled, chunks, requests, fstate, futures,
          layer_map, alive, published, delivered, slice_id, data, loading,
          last_visible, visible, pos, drawable, last>>

octree_vars == <<slice_id, data, loading, last_visible, visible, pos, drawable>>

\* Everything but the record of the last call.
others == <<synchronous, cache_enabled, chunks, requests, fstate, futures,
            layer_map, alive, published, delivered, octree_vars>>

\* ------------------------------------------------------------- sequences
SeqToSet(s) == {s[i] : i \in DOMAIN s}

RECURSIVE SumBytes(_)
SumBytes(ch) == IF ch = <<>> THEN 0 ELSE Head(ch).size + SumBytes(Tail(ch))

\* Position of key k in the cache order, 0 when absent.
IndexOf(ch, k) ==
    IF \E i \in DOMAIN ch : ch[i].key = k
    THEN CHOOSE i \in DOMAIN ch : ch[i].key = k
    ELSE 0

Without(ch, k) == SelectSeq(ch, LAMBDA e : e.key # k)

\* ------------------------------------------------- cachetools.LRUCache
\* Mutant: popitem drops the most recently used entry.
popitem_mru(ch) == SubSeq(ch, 1, Len(ch) - 1)

\* Cache.popitem of LRUCache: drop the least recently used entry.
popitem(ch) == Tail(ch)

\* while self.currsize + size > maxsize: self.popitem()
RECURSIVE evict(_, _)
evict(ch, size) ==
    IF ch # <<>> /\ SumBytes(ch) + size > CacheBytes
    THEN evict(popitem(ch), size)
    ELSE ch

\* LRUCache.__setitem__ raises ValueError("value too large").
too_large(size) == size > CacheBytes

\* LRUCache.__setitem__(key, value) for a value that is not too large:
\* make room unless the key is stored with at least this size, store the
\* entry and make it the most recently used one.
setitem(ch, k, v, size) ==
    LET i == IndexOf(ch, k)
        room == IF i = 0 \/ ch[i].size < size THEN evict(ch, size) ELSE ch
    IN  Append(Without(room, k), [key |-> k, val |-> v, size |-> size])

\* The number of popitem calls setitem makes.
popitems(ch, k, size) ==
    LET i == IndexOf(ch, k)
    IN  IF i = 0 \/ ch[i].size < size THEN Len(ch) - Len(evict(ch, size)) ELSE 0

\* LRUCache.get(key): the stored value or Lazy (None) ...
getitem(ch, k) == IF IndexOf(ch, k) = 0 THEN Lazy ELSE ch[IndexOf(ch, k)].val

\* Mutant: a hit leaves the order alone.
touch_not(ch, k) == ch

\* ... and a hit makes the entry the most recently used one.
touch(ch, k) ==
    IF IndexOf(ch, k) = 0 THEN ch
    ELSE Append(Without(ch, k), ch[IndexOf(ch, k)])

\* ------------------------------------------------------------- ChunkCache
\* ChunkCache.add_chunk(request): self.chunks[request.key] = request.chunks.
\* "raises" stands for the ValueError of __setitem__, which stores nothing.
add_chunk_raises(size) == too_large(size)

add_chunk(ch, k, v, size) ==
    IF too_large(size) THEN ch ELSE setitem(ch, k, v, size)

\* Mutant: get_chunk finds nothing.
get_chunk_misses(ch, k) == Lazy

\* ChunkCache.get_chunk(request): self.chunks.get(request.key), the cached
\* array or Lazy (None) ...
get_chunk(ch, k) == getitem(ch, k)

\* ... and the cache order afterwards.
get_chunk_order(ch, k) == touch(ch, k)

\* ------------------------------------------------------------ ChunkRequest
\* ChunkRequest(layer, indices, array): no delay until load_chunk sets one.
\* slice is the slice_id of the octree location the request is for (0: none).
\* Four fields record what became of the request: ret is what load_chunk
\* returned for it, cleared whether the reconciliation pass cleared the tile
\* before asking for it, marked the tile's loading flag when the request was
\* created, outcome what the completion handler did with it.
ChunkRequest(layer, slice, idx, array) ==
    [layer |-> layer, slice |-> slice, idx |-> idx, array |-> array, delay |-> 0,
     ret |-> "", cleared |-> FALSE, marked |-> FALSE, outcome |-> ""]

\* request.key: (layer id, location or indices).
KeyOf(req) == <<req.layer, req.slice, req.idx>>

\* ---------------------------------------------------------------- ChunkKey
\* Python values used as indices: an int, a slice, a tuple or a list, each
\* with its components.  Two of them are equal in Python exactly when kind
\* and components are equal.
PyInt(n) == [kind |-> "int", val |-> <<n>>]
PySlice(start, stop, step) == [kind |-> "slice", val |-> <<start, stop, step>>]
PyTuple(t) == [kind |-> "tuple", val |-> t]
PyList(t) == [kind |-> "list", val |-> t]

\* _index_to_tuple(index): a slice becomes (start, stop, step), anything
\* else is returned as it is.
index_to_tuple(index) ==
    IF index.kind = "slice" THEN PyTuple(index.val) ELSE index

\* ChunkKey(layer, indices) of a layer with layer._data_level = level.
ChunkKey(layer, level, indices) ==
    LET converted == [i \in DOMAIN indices |-> index_to_tuple(indices[i])]
    IN  [layer_id   |-> layer,
         data_level |-> level,
         indices    |-> converted,
         key        |-> <<layer, level, converted>>]

\* Mutant: __eq__ leaves the data level out.
ChunkKey_eq_without_level(a, b) ==
    a.layer_id = b.layer_id /\ a.indices = b.indices

\* ChunkKey.__eq__(self, other): self.key == other.key
ChunkKey_eq(a, b) == a.key = b.key

\* class ChunkKey defines __eq__ and no __hash__.
ChunkKey_defines == {"__init__", "__str__", "__eq__"}

\* Python's data model: a class that defines __eq__ without __hash__ has
\* __hash__ set to None, and hash() of its instances raises TypeError.
ChunkKey_hashable ==
    "__hash__" \in ChunkKey_defines \/ "__eq__" \notin ChunkKey_defines

\* ------------------------------------------------------------ ChunkLoader
\* Mutant: the loader does not recognise an in-memory array.
in_memory_never(array) == FALSE

\* isinstance(request.array, np.ndarray)
in_memory(array) == array # Lazy

\* np.asarray(array) on behalf of request r: an ndarray is returned as it
\* is, anything else is materialized into a new array.
asarray(r, array) == IF array = Lazy THEN r ELSE array

\* Future.cancel(): False for a running or finished future, True otherwise.
cancel(s) == s \in {"pending", "cancelled"}

\* Mutant: cancel() is not called, the list is only filtered.
after_cancel_not_called(s) == s

\* The state cancel() leaves a future in.
after_cancel(s) == IF s = "pending" THEN "cancelled" ELSE s

\* _clear_pending: future_list[:] = [x for x in future_list if x.cancel()]
clear_pending(fs, future_list) == SelectSeq(future_list, LAMBDA x : cancel(fs[x]))

\* Mutant: _clear_pending is not reached.
clear_pending_states_skipped(fs, future_list) == fs

\* The states of all futures once _clear_pending called cancel() on the list.
clear_pending_states(fs, future_list) ==
    [i \in DOMAIN fs |->
        IF i \in SeqToSet(future_list) THEN after_cancel(fs[i]) ELSE fs[i]]

\* _load_async(request) for the new request number r: what it returns
\* ("request" or "pending"), the request afterwards, the state of its future
\* and the loader's tables afterwards.
load_async(r, req) ==
    LET fl  == clear_pending(fstate, futures[req.layer])
        fs  == clear_pending_states(fstate, futures[req.layer])
        hit == get_chunk(chunks, KeyOf(req))
    IN  IF hit # Lazy
        THEN [ret      |-> "request",
              request  |-> [req EXCEPT !.array = hit],
              future   |-> "none",
              futures  |-> [futures EXCEPT ![req.layer] = fl],
              fstate   |-> fs,
              chunks   |-> get_chunk_order(chunks, KeyOf(req))]
        ELSE [ret      |-> "pending",
              request  |-> req,
              future   |-> "pending",
              futures  |-> [futures EXCEPT ![req.layer] = Append(fl, r)],
              fstate   |-> fs,
              chunks   |-> chunks]

\* Mutant: load_chunk leaves the request's delay at zero.
load_chunk_no_delay(r, req) ==
    IF synchronous \/ in_memory(req.array)
    THEN [ret      |-> "request",
          request  |-> [req EXCEPT !.array = asarray(r, req.array)],
          future   |-> "none",
          futures  |-> futures,
          fstate   |-> fstate,
          chunks   |-> chunks]
    ELSE load_async(r, req)

\* load_chunk(request) for the new request number r.
load_chunk(r, req) ==
    IF synchronous \/ in_memory(req.array)
    THEN [ret      |-> "request",
          request  |-> [req EXCEPT !.array = asarray(r, req.array)],
          future   |-> "none",
          futures  |-> futures,
          fstate   |-> fstate,
          chunks   |-> chunks]
    ELSE load_async(r, [req EXCEPT !.delay = DELAY_TENTHS])

\* _get_layer_for_request: does the layer id map to a live layer?
get_layer_for_request_strong(req) == req.layer \in layer_map

get_layer_for_request(req) == req.layer \in layer_map /\ req.layer \in alive

\* The effect of create_request and load_chunk on the loader's state.
Install(out) ==
    /\ requests' = Append(requests, [out.request EXCEPT !.ret = out.ret])
    /\ fstate' = Append(out.fstate, out.future)
    /\ futures' = out.futures
    /\ chunks' = out.chunks
    /\ layer_map' = layer_map \cup {out.request.layer}

\* A layer asks for a chunk: create_request, then load_chunk.
LoadChunkWithin(bound, layer, idx, array_in_memory) ==
    /\ pos = 0
    /\ Len(requests) < bound
    /\ layer \in alive
    /\ LET r   == Len(requests) + 1
           req == ChunkRequest(layer, 0, idx, IF array_in_memory THEN r ELSE Lazy)
       IN  Install(load_chunk(r, req))
    /\ UNCHANGED <<synchronous, cache_enabled, alive, published, delivered,
                   octree_vars, last>>

LoadChunk(layer, idx, array_in_memory) ==
    LoadChunkWithin(MaxRequests, layer, idx, array_in_memory)

\* The pool hands the oldest pending work item to a free worker.
WorkerStart ==
    \E r \in DOMAIN fstate :
        /\ fstate[r] = "pending"
        /\ \A q \in DOMAIN fstate : q < r => fstate[q] # "pending"
        /\ Cardinality({q \in DOMAIN fstate : fstate[q] = "running"}) < NUM_WORKERS
        /\ fstate' = [fstate EXCEPT ![r] = "running"]
        /\ UNCHANGED <<synchronous, cache_enabled, chunks, requests, futures,
                       layer_map, alive, published, delivered, octree_vars, last>>

\* What _done does with a request the worker returned: "raised" when
\* cache.add_chunk raises, "dropped" when the layer is gone, else "published".
done(req) ==
    IF add_chunk_raises(nbytes(req.idx)) THEN "raised"
    ELSE IF ~get_layer_for_request(req) THEN "dropped"
    ELSE "published"

\* _chunk_loader_worker returns the request with its array loaded, and the
\* future's done callback _done runs.
Finish(r) ==
    /\ fstate[r] = "running"
    /\ LET req == [requests[r] EXCEPT !.array = asarray(r, requests[r].array)]
       IN  /\ requests' = [requests EXCEPT ![r] = [req EXCEPT !.outcome = done(req)]]
           /\ fstate' = [fstate EXCEPT ![r] = "finished"]
           /\ chunks' = add_chunk(chunks, KeyOf(req), req.array,
                                  nbytes(req.idx))
           /\ published' = IF done(req) = "published"
                           THEN Append(published, r) ELSE published
    /\ UNCHANGED <<synchronous, cache_enabled, futures, layer_map, alive,
                   delivered, octree_vars>>

\* ... with no receiver looked at.
WorkerFinish(r) == Finish(r) /\ UNCHANGED last

\* np.asarray raises in the worker: future.result() raises that error in
\* _done, which is left before the cache or the event is reached.
WorkerFail(r) ==
    /\ fstate[r] = "running"
    /\ fstate' = [fstate EXCEPT ![r] = "failed"]
    /\ requests' = [requests EXCEPT ![r].outcome = "failed"]
    /\ UNCHANGED <<synchronous, cache_enabled, chunks, futures, layer_map,
                   alive, published, delivered, octree_vars, last>>

\* The layer is deleted: its weak reference no longer resolves.
DeleteLayer(layer) ==
    /\ pos = 0
    /\ layer \in alive
    /\ alive' = alive \ {layer}
    /\ UNCHANGED <<synchronous, cache_enabled, chunks, requests, fstate,
                   futures, layer_map, published, delivered, octree_vars, last>>

\* ----------------------------------------------------------- OctreeChunk
\* OctreeChunk.in_memory: the chunk's data is an ndarray.
chunk_in_memory(d) == d # Lazy

\* OctreeChunk.needs_load: neither in memory nor being loaded.
needs_load(d, l) == ~chunk_in_memory(d) /\ ~l

\* OctreeChunk.clear(): back to the original lazy data.
clear_data(d) == Lazy

\* OctreeChunk.data = v: the chunk holds v and is no longer being loaded.
set_data(v) == [data |-> v, loading |-> FALSE]

\* OctreeChunkKey of a tile of the current slice.
ChunkKeyOf(slice, t) == <<slice, t>>

\* ----------------------------------------------------- OctreeIntersection
\* Coordinates are exact fractions: a span value n stands for the level
\* coordinate n / scale, and a number of tiles x for x / (tile_size * scale).
\* Mutant: _clamp without the lower limit.
clamp_upper_only(val, min_val, max_val) ==
    IF val < max_val THEN val ELSE max_val

\* _clamp(val, min_val, max_val): max(min(val, max_val), min_val)
clamp(val, min_val, max_val) ==
    LET m == IF val < max_val THEN val ELSE max_val
    IN  IF m > min_val THEN m ELSE min_val

\* int(x) of the fraction x / den: truncation towards zero.
trunc(x, den) == IF x >= 0 THEN x \div den ELSE -((-x) \div den)

\* Mutant: tile_range without the "+ 1" on the upper end.
tile_range_not_widened(span, num_tiles, tile_size, scale) ==
    LET den == tile_size * scale
        clamped == <<clamp(span[1], 0, (num_tiles - 1) * den),
                     clamp(span[2], 0, (num_tiles - 1) * den)>>
    IN  [start |-> trunc(clamped[1], den), stop |-> trunc(clamped[2], den)]

\* tile_range(span, num_tiles) at a level with the given tile size; the span
\* was divided by info.scale in __init__.  The result is range(start, stop).
tile_range(span, num_tiles, tile_size, scale) ==
    LET den == tile_size * scale
        clamped == <<clamp(span[1], 0, (num_tiles - 1) * den),
                     clamp(span[2], 0, (num_tiles - 1) * den) + den>>
    IN  [start |-> trunc(clamped[1], den), stop |-> trunc(clamped[2], den)]

\* The indices of a Python range(start, stop).
RangeSet(r) == {i \in r.start..(r.stop - 1) : TRUE}

\* Mutant: _inside takes the stop of the range as inside.
inside_inclusive(value, value_range) ==
    value_range.start <= value /\ value <= value_range.stop

\* is_visible._inside(value, value_range)
inside(value, value_range) ==
    value_range.start <= value /\ value < value_range.stop

\* is_visible(row, col) of an intersection with these two ranges.
is_visible(row, col, row_range, col_range) ==
    inside(row, row_range) /\ inside(col, col_range)

\* OctreeLevel.get_chunk(row, col, create_chunks): is there a chunk at the
\* location afterwards (existing: the locations that have one).
level_get_chunk(existing, row, col, create_chunks) ==
    create_chunks \/ <<row, col>> \in existing

\* The locations "for row in row_range: for col in col_range" visits, in
\* that order.
RowMajor(row_range, col_range) ==
    LET nr == IF row_range.stop > row_range.start
              THEN row_range.stop - row_range.start ELSE 0
        nc == IF col_range.stop > col_range.start
              THEN col_range.stop - col_range.start ELSE 0
    IN  [k \in 1..(nr * nc) |->
            <<row_range.start + ((k - 1) \div nc),
              col_range.start + ((k - 1) % nc)>>]

\* get_chunks(create_chunks): the chunks of the locations visited, those
\* left out for which get_chunk returns None.
get_chunks(existing, row_range, col_range, create_chunks) ==
    SelectSeq(RowMajor(row_range, col_range),
              LAMBDA loc : level_get_chunk(existing, loc[1], loc[2], create_chunks))

\* ------------------------------------------------------ OctreeChunkLoader
\* The visible lists an intersection can produce: tiles in grid order.
VisibleLists ==
    {s \in UNION {[1..n -> Tiles] : n \in 0..NumTiles} :
        \A i, j \in DOMAIN s : i < j => s[i] < s[j]}

\* Mutant: keys that left the view are kept.
prune_nothing(seen, visible_set) == seen

\* Remove the keys from _last_visible that are not in the visible set.
prune(seen, visible_set) == seen \cap visible_set

\* get_drawable_chunks, up to the loop: forget the keys that are no longer
\* in view.
PassBegin(vis) ==
    /\ pos = 0
    /\ "octree" \in alive
    /\ visible' = vis
    /\ last_visible' = prune(last_visible,
                             {ChunkKeyOf(slice_id, t) : t \in SeqToSet(vis)})
    /\ drawable' = <<>>
    /\ pos' = 1
    /\ UNCHANGED <<synchronous, cache_enabled, chunks, requests, fstate,
                   futures, layer_map, alive, published, delivered, slice_id,
                   data, loading, last>>

\* Mutant: the disabled-cache rule clears every chunk that is new in view.
clears_not_in_memory(enabled, new_in_view, d) == ~enabled /\ new_in_view

\* Does the disabled-cache rule clear this chunk before it is looked at?
clears(enabled, new_in_view, d) == ~enabled /\ new_in_view /\ chunk_in_memory(d)

\* Mutant: the loop body does not look at the loading flag.
branch_ignores_loading(d, l) == IF chunk_in_memory(d) THEN "in_memory" ELSE "load"

\* The branch the loop body takes for a chunk with data d and loading flag l.
branch(d, l) ==
    IF chunk_in_memory(d) THEN "in_memory"
    ELSE IF l THEN "loading"
    ELSE "load"

\* Mutant: a synchronous load stores its data but is reported as pending.
octree_load_chunk_not_reported(d, out) ==
    [data      |-> IF out.ret = "pending" THEN d ELSE out.request.array,
     loading   |-> out.ret = "pending",
     sync_load |-> FALSE]

\* Mutant: a synchronous load is reported but its data is not stored.
octree_load_chunk_drops_data(d, out) ==
    [data      |-> d,
     loading   |-> TRUE,
     sync_load |-> out.ret # "pending"]

\* _load_chunk(octree_chunk, layer_key) for a chunk with data d, out being
\* what create_request and load_chunk give for it: the chunk is marked as
\* loading first; a satisfied request's data goes into the chunk and True is
\* returned, for an asynchronous load False.
octree_load_chunk(d, out) ==
    [data      |-> IF out.ret = "pending" THEN d
                   ELSE set_data(out.request.array).data,
     loading   |-> IF out.ret = "pending" THEN TRUE
                   ELSE set_data(out.request.array).loading,
     sync_load |-> out.ret # "pending"]

\* One iteration of the loop over the visible chunks.
PassStep ==
    /\ pos \in 1..Len(visible)
    /\ LET t   == visible[pos]
           c   == clears(cache_enabled, ChunkKeyOf(slice_id, t) \notin last_visible,
                         data[t])
           d   == IF c THEN clear_data(data[t]) ELSE data[t]
           l   == IF c THEN FALSE ELSE loading[t]
           r   == Len(requests) + 1
           \* _load_chunk sets octree_chunk.loading before create_request
           req == [ChunkRequest("octree", slice_id, t, d) EXCEPT
                      !.cleared = c, !.marked = TRUE]
           out == load_chunk(r, req)
           res == octree_load_chunk(d, out)
       IN  CASE branch(d, l) = "in_memory" ->
                  /\ drawable' = Append(drawable, t)
                  /\ UNCHANGED <<chunks, requests, fstate, futures, layer_map,
                                 data, loading>>
             [] branch(d, l) = "loading" ->
                  /\ UNCHANGED <<chunks, requests, fstate, futures, layer_map,
                                 data, loading, drawable>>
             [] branch(d, l) = "load" ->
                  /\ Len(requests) < MaxRequests
                  /\ Install(out)
                  /\ data' = [data EXCEPT ![t] = res.data]
                  /\ loading' = [loading EXCEPT ![t] = res.loading]
                  /\ drawable' = IF res.sync_load THEN Append(drawable, t)
                                 ELSE drawable
    /\ pos' = pos + 1
    /\ UNCHANGED <<synchronous, cache_enabled, alive, published, delivered,
                   slice_id, last_visible, visible, last>>

\* get_drawable_chunks, after the loop: remember what is drawn and return.
PassReturn ==
    /\ pos = Len(visible) + 1
    /\ last_visible' = last_visible \cup
                           {ChunkKeyOf(slice_id, t) : t \in SeqToSet(drawable)}
    /\ pos' = 0
    /\ visible' = <<>>
    /\ UNCHANGED <<synchronous, cache_enabled, chunks, requests, fstate,
                   futures, layer_map, alive, published, delivered, slice_id,
                   data, loading, drawable>>

PassEnd == PassReturn /\ UNCHANGED last

\* -------------------------------------------------- OctreeMultiscaleSlice
\* level.info.scale of level i: level 0 is the full resolution image and
\* each further level is downsized by half.
level_scale(i) == 2 ^ i

\* (num_tiles / level.info.scale) < max_tiles, with num_tiles = width /
\* tile_size; tile sizes and scales are positive, so the quotient is below
\* max_tiles exactly when width is below max_tiles * tile_size * scale.
few_tiles(width, tile_size, i) ==
    width < max_tiles * tile_size * level_scale(i)

\* The loop of _get_octree_level from level i on: the first level of the
\* enumeration that passes the test, or num_levels - 1 when the loop ends.
RECURSIVE find_level(_, _, _, _)
find_level(width, tile_size, num_levels, i) ==
    IF i >= num_levels THEN num_levels - 1
    ELSE IF few_tiles(width, tile_size, i) THEN i
    ELSE find_level(width, tile_size, num_levels, i + 1)

get_octree_level_last_match(width, tile_size, num_levels, current, auto_level) ==
    IF ~auto_level THEN current
    ELSE LET ok == {i \in 0..(num_levels - 1) : few_tiles(width, tile_size, i)}
         IN  IF ok = {} THEN num_levels - 1
             ELSE CHOOSE i \in ok : \A j \in ok : j <= i

\* _get_octree_level(corners_2d, auto_level), width being the width of
\* corners_2d and current the slice's _octree_level.
get_octree_level(width, tile_size, num_levels, current, auto_level) ==
    IF ~auto_level THEN current
    ELSE find_level(width, tile_size, num_levels, 0)

\* on_chunk_loaded(request): False for another slice's request, else the
\* data goes into the chunk at the request's location.
on_chunk_loaded(req) == req.slice = slice_id

\* A location of the octree level: an OctreeChunk with its data and loading
\* flag, or the raw tile that no load has yet turned into an OctreeChunk.
RawTile == [chunk |-> FALSE, data |-> Lazy, loading |-> FALSE]
Chunk(d, l) == [chunk |-> TRUE, data |-> d, loading |-> l]

\* Mutant: the slice of the request is not looked at.
on_chunk_loaded_any_slice(req, current, tiles) ==
    IF ~tiles[req.idx].chunk
    THEN [ret |-> FALSE, raised |-> "", tiles |-> tiles]
    ELSE [ret |-> TRUE, raised |-> "",
          tiles |-> [tiles EXCEPT ![req.idx] =
                        Chunk(set_data(req.array).data,
                              set_data(req.array).loading)]]

\* Mutant: the data of the request is not put into the chunk.
on_chunk_loaded_not_stored(req, current, tiles) ==
    IF req.slice # current \/ ~tiles[req.idx].chunk
    THEN [ret |-> FALSE, raised |-> "", tiles |-> tiles]
    ELSE [ret |-> TRUE, raised |-> "", tiles |-> tiles]

\* on_chunk_loaded(request) of the slice whose identity is current, over the
\* locations tiles: what it returns or raises and the locations afterwards.
on_chunk_loaded_at(req, current, tiles) ==
    IF req.slice # current
    THEN [ret |-> FALSE, raised |-> "", tiles |-> tiles]
    ELSE IF ~tiles[req.idx].chunk
    THEN [ret |-> FALSE, raised |-> "", tiles |-> tiles]
    ELSE IF ~chunk_in_memory(req.array)
    THEN [ret |-> FALSE, raised |-> "AssertionError", tiles |-> tiles]
    ELSE LET after == [tiles EXCEPT ![req.idx] =
                          Chunk(set_data(req.array).data,
                                set_data(req.array).loading)]
         IN  IF needs_load(after[req.idx].data, after[req.idx].loading)
             THEN [ret |-> FALSE, raised |-> "AssertionError", tiles |-> after]
             ELSE [ret |-> TRUE, raised |-> "", tiles |-> after]

\* QtChunkReceiver forwards the next chunk_loaded event on the GUI thread:
\* layer.chunk_loaded(request).
Deliver ==
    /\ pos = 0
    /\ delivered < Len(published)
    /\ LET req == requests[published[delivered + 1]]
       IN  /\ delivered' = delivered + 1
           /\ IF req.layer = "octree" /\ on_chunk_loaded(req)
              THEN /\ data' = [data EXCEPT ![req.idx] = req.array]
                   /\ loading' = [loading EXCEPT ![req.idx] = FALSE]
              ELSE UNCHANGED <<data, loading>>
    /\ UNCHANGED <<synchronous, cache_enabled, chunks, requests, fstate,
                   futures, layer_map, alive, published, slice_id,
                   last_visible, visible, pos, drawable, last>>

\* The layer shows another slice: a new OctreeMultiscaleSlice with a new
\* octree, none of whose chunks is loaded.
ChangeSlice ==
    /\ pos = 0
    /\ "octree" \in alive
    /\ slice_id < MaxSlices
    /\ slice_id' = slice_id + 1
    /\ data' = [t \in Tiles |-> Lazy]
    /\ loading' = [t \in Tiles |-> FALSE]
    /\ UNCHANGED <<synchronous, cache_enabled, chunks, requests, fstate,
                   futures, layer_map, alive, published, delivered,
                   last_visible, visible, pos, drawable, last>>

\* ------------------------------------------------------- specifications
\* What the last call on the cache was: op names it, key and size are its
\* arguments, val is the payload added or returned (Lazy: nothing) and
\* evicted the number of other entries the call removed.
Note(op, k, v, size, evicted) ==
    [op |-> op, key |-> k, val |-> v, size |-> size, evicted |-> evicted]

Init ==
    /\ synchronous \in BOOLEAN
    /\ cache_enabled \in BOOLEAN
    /\ chunks = <<>>
    /\ requests = <<>>
    /\ fstate = <<>>
    /\ futures = [l \in Layers |-> <<>>]
    /\ layer_map = {}
    /\ alive = Layers
    /\ published = <<>>
    /\ delivered = 0
    /\ slice_id = 1
    /\ data = [t \in Tiles |-> Lazy]
    /\ loading = [t \in Tiles |-> FALSE]
    /\ last_visible = {}
    /\ visible = <<>>
    /\ pos = 0
    /\ drawable = <<>>
    /\ last = Note("init", 0, Lazy, 0, 0)

\* The octree image: reconciliation passes, the workers, the delivery of
\* chunk_loaded events and slice changes.
Next ==
    \/ WorkerStart
    \/ \E r \in DOMAIN fstate : WorkerFinish(r)
    \/ \E r \in DOMAIN fstate : WorkerFail(r)
    \/ DeleteLayer("octree")
    \/ \E vis \in VisibleLists : PassBegin(vis)
    \/ PassStep
    \/ PassEnd
    \/ Deliver
    \/ ChangeSlice

Spec == Init /\ [][Next]_vars

\* The loader under direct load_chunk calls of any layer.
LoaderNext ==
    \/ \E layer \in Layers, idx \in Indices, m \in BOOLEAN : LoadChunk(layer, idx, m)
    \/ WorkerStart
    \/ \E r \in DOMAIN fstate : WorkerFinish(r)
    \/ \E r \in DOMAIN fstate : WorkerFail(r)
    \/ \E layer \in Layers : DeleteLayer(layer)

LoaderSpec == Init /\ [][LoaderNext]_vars

\* The cache driven alone: add_chunk and get_chunk with any key, payload and
\* payload size.
CacheKey(k) == <<"image", 0, k>>

\* The entries of ch, other than key k, that are no longer in the cache.
Evicted(ch, k) ==
    {i \in DOMAIN ch : ch[i].key # k /\ IndexOf(chunks', ch[i].key) = 0}

CacheAdd(k, v, size) ==
    /\ chunks' = add_chunk(chunks, CacheKey(k), v, size)
    /\ last' = Note(IF add_chunk_raises(size)
                    THEN "add_chunk_raised" ELSE "add_chunk", k, v, size,
                    Cardinality(Evicted(chunks, CacheKey(k))))
    /\ UNCHANGED <<synchronous, cache_enabled, requests, fstate, futures,
                   layer_map, alive, published, delivered, octree_vars>>

CacheGet(k) ==
    /\ chunks' = get_chunk_order(chunks, CacheKey(k))
    /\ last' = Note("get_chunk", k, get_chunk(chunks, CacheKey(k)),
                    0, 0)
    /\ UNCHANGED <<synchronous, cache_enabled, requests, fstate, futures,
                   layer_map, alive, published, delivered, octree_vars>>

\* The arrays handed to the cache when it is driven alone.
Payloads == {1, 2}

CacheNext ==
    \/ \E k \in 1..NumKeys, v \in Payloads, size \in 1..(CacheBytes + 1) :
           CacheAdd(k, v, size)
    \/ \E k \in 1..NumKeys : CacheGet(k)

CacheSpec == Init /\ [][CacheNext]_vars

\* ChunkKey alone: keys are constructed from any layer, data level and
\* indices, compared, and used as keys of the cache.
AnIndex ==
    {PyInt(0), PyInt(1), PySlice(0, 1, 1), PyTuple(<<0, 1, 1>>), PyList(<<0, 1>>)}

IndexTuples == UNION {[1..n -> AnIndex] : n \in 1..MaxIndices}

KeyArgs == Layers \X {0, 1} \X IndexTuples

\* Two keys are constructed and compared.
KeyCompare(x, y) ==
    /\ last.op = "init"
    /\ last' = [op   |-> "ChunkKey",
                x    |-> x,
                y    |-> y,
                a    |-> ChunkKey(x[1], x[2], x[3]),
                b    |-> ChunkKey(y[1], y[2], y[3]),
                eq   |-> ChunkKey_eq(ChunkKey(x[1], x[2], x[3]),
                                     ChunkKey(y[1], y[2], y[3]))]
    /\ UNCHANGED others

\* cache.add_chunk of a request whose key is a ChunkKey: the LRUCache hashes
\* the key, and hash() raises TypeError for an unhashable one.
KeyAdd(x, v) ==
    /\ last.op = "init"
    /\ chunks' = IF ChunkKey_hashable
                 THEN add_chunk(chunks, ChunkKey(x[1], x[2], x[3]).key, v, 1)
                 ELSE chunks
    /\ last' = [op     |-> "add_chunk",
                x      |-> x,
                val    |-> v,
                raised |-> ~ChunkKey_hashable]
    /\ UNCHANGED <<synchronous, cache_enabled, requests, fstate, futures,
                   layer_map, alive, published, delivered, octree_vars>>

\* cache.get_chunk of a request whose key is a ChunkKey.
KeyGet(x) ==
    /\ last.op = "add_chunk"
    /\ chunks' = IF ChunkKey_hashable
                 THEN get_chunk_order(chunks, ChunkKey(x[1], x[2], x[3]).key)
                 ELSE chunks
    /\ last' = [op     |-> "get_chunk",
                x      |-> x,
                val    |-> IF ChunkKey_hashable
                           THEN get_chunk(chunks, ChunkKey(x[1], x[2], x[3]).key)
                           ELSE Lazy,
                raised |-> ~ChunkKey_hashable]
    /\ UNCHANGED <<synchronous, cache_enabled, requests, fstate, futures,
                   layer_map, alive, published, delivered, octree_vars>>

KeyNext ==
    \/ \E x, y \in KeyArgs : KeyCompare(x, y)
    \/ \E x \in KeyArgs, v \in Payloads : KeyAdd(x, v)
    \/ \E x \in KeyArgs : KeyGet(x)

KeySpec == Init /\ [][KeyNext]_vars

\* The intersection alone: tile ranges of any span, and the chunks of any
\* view rectangle over a level of MaxGrid x MaxGrid tiles.
TileSizes == {2, 3}
Scales == {1, 2}
Coords == (0 - 2)..(2 * MaxGrid + 2)
Spans == {sp \in Coords \X Coords : sp[1] <= sp[2]}

\* row_range / column_range of a span.
TileRange(span, num_tiles, tile_size, scale) ==
    /\ last.op = "init"
    /\ last' = [op        |-> "tile_range",
                span      |-> span,
                num_tiles |-> num_tiles,
                tile_size |-> tile_size,
                scale     |-> scale,
                range     |-> tile_range(span, num_tiles, tile_size, scale)]
    /\ UNCHANGED others

\* The chunks the level has so far, and the number of get_chunks calls.
Existing == IF last.op = "get_chunks" THEN last.tiles ELSE {}
Calls == IF last.op = "get_chunks" THEN last.calls ELSE 0

\* View rectangles whose corners lie inside tiles of size 2 or outside the
\* level.
CornerCoords == {2 * i - 1 : i \in 0..(MaxGrid + 1)}
Corners ==
    {c \in (CornerCoords \X CornerCoords) \X (CornerCoords \X CornerCoords) :
        c[1][1] <= c[2][1] /\ c[1][2] <= c[2][2]}

\* OctreeIntersection(level, corners_2d), then get_chunks(create_chunks), at
\* a level of scale 1 with tiles of size 2.
GetChunks(corners, create_chunks) ==
    LET rows      == <<corners[1][1], corners[2][1]>>
        cols      == <<corners[1][2], corners[2][2]>>
        row_range == tile_range(rows, MaxGrid, 2, 1)
        col_range == tile_range(cols, MaxGrid, 2, 1)
        chunks_   == get_chunks(Existing, row_range, col_range, create_chunks)
    IN  /\ last.op \in {"init", "get_chunks"}
        /\ Calls < 2
        /\ last' = [op        |-> "get_chunks",
                    calls     |-> Calls + 1,
                    corners   |-> corners,
                    row_range |-> row_range,
                    col_range |-> col_range,
                    create    |-> create_chunks,
                    before    |-> Existing,
                    chunks    |-> chunks_,
                    tiles     |-> Existing \cup SeqToSet(chunks_)]
        /\ UNCHANGED others

\* Widths of the view, up to one past the width at which the coarsest
\* level of the largest tiles stops passing the test.
Widths == 0..(max_tiles * 3 * level_scale(MaxLevels - 1) + 1)

\* get_visible_chunks(corners_2d, auto_level) up to the choice of the level:
\* get_intersection calls _get_octree_level, and with auto_level the slice's
\* _octree_level becomes the level chosen.
GetVisibleChunks(width, tile_size, num_levels, current, auto_level) ==
    LET level == get_octree_level(width, tile_size, num_levels, current,
                                  auto_level)
    IN  /\ last.op = "init"
        /\ last' = [op           |-> "get_octree_level",
                    width        |-> width,
                    tile_size    |-> tile_size,
                    num_levels   |-> num_levels,
                    current      |-> current,
                    auto_level   |-> auto_level,
                    level        |-> level,
                    octree_level |-> IF auto_level THEN level ELSE current]
        /\ UNCHANGED others

GridNext ==
    \/ \E span \in Spans, n \in 1..MaxGrid, t \in TileSizes, sc \in Scales :
           TileRange(span, n, t, sc)
    \/ \E c \in Corners, create \in BOOLEAN : GetChunks(c, create)
    \/ \E w \in Widths, t \in TileSizes, n \in 1..MaxLevels,
          auto_level \in BOOLEAN :
           \E current \in 0..(n - 1) :
               GetVisibleChunks(w, t, n, current, auto_level)

GridSpec == Init /\ [][GridNext]_vars

\* The worker pool when the loads of one layer never finish: enough requests
\* to occupy every worker and leave one more waiting.  Lazy chunks of tile 1
\* are asked for; the loads of the octree layer stay in np.asarray for ever,
\* the image layer asks for one chunk and its load finishes once it runs,
\* and a free worker always takes the next work item.
PoolRequests == NUM_WORKERS + 1

PoolLoad(layer) ==
    /\ layer = "image" => \A q \in DOMAIN requests : requests[q].layer # "image"
    /\ LoadChunkWithin(PoolRequests, layer, 1, FALSE)

PoolNext ==
    \/ \E layer \in Layers : PoolLoad(layer)
    \/ WorkerStart
    \/ \E r \in DOMAIN fstate : requests[r].layer = "image" /\ WorkerFinish(r)

PoolFinish(r) ==
    r \in DOMAIN fstate /\ requests[r].layer = "image" /\ WorkerFinish(r)

PoolSpec ==
    /\ Init
    /\ [][PoolNext]_vars
    /\ WF_vars(WorkerStart)
    /\ \A r \in 1..PoolRequests : WF_vars(PoolFinish(r))

\* The cache under its two callers, which no lock separates: the thread that
\* calls load_chunk looks chunks up (_load_async: cache.get_chunk), and the
\* thread that runs the done callbacks adds them (_done: cache.add_chunk).
\* The done callbacks run one after the other.  Each call is cut where
\* LRUCache leaves the cache between two of its own statements:
\*   get(key):        "if key in self" | "return self[key]" with its update
\*   __setitem__:     size test | each popitem | store with its update
\* The calls in progress are kept in the record of the last call.
Idle == [pc |-> "idle", key |-> 0, val |-> Lazy, size |-> 0, found |-> FALSE,
         result |-> ""]
Gui == IF last.op = "threads" THEN last.gui ELSE Idle
Callback == IF last.op = "threads" THEN last.callback ELSE Idle
Threads(g, c) == [op |-> "threads", gui |-> g, callback |-> c]

\* get_chunk on the calling thread: Cache.get tests "key in self".
GetBegin(k) ==
    /\ Gui.pc = "idle"
    /\ last' = Threads([Idle EXCEPT !.pc = "get", !.key = k,
                             !.found = IndexOf(chunks, CacheKey(k)) # 0],
                       Callback)
    /\ UNCHANGED others

\* ... and then returns self[key], which raises KeyError when the key is no
\* longer stored, or the default for a key that was not found.
GetEnd ==
    /\ Gui.pc = "get"
    /\ LET k    == CacheKey(Gui.key)
           here == IndexOf(chunks, k) # 0
       IN  /\ last' = Threads([Idle EXCEPT
                                  !.key = Gui.key,
                                  !.found = Gui.found,
                                  !.val = IF Gui.found /\ here
                                          THEN getitem(chunks, k) ELSE Lazy,
                                  !.result = IF ~Gui.found THEN "miss"
                                             ELSE IF here THEN "hit"
                                             ELSE "KeyError"],
                              Callback)
           /\ chunks' = IF Gui.found /\ here THEN touch(chunks, k) ELSE chunks
    /\ UNCHANGED <<synchronous, cache_enabled, requests, fstate, futures,
                   layer_map, alive, published, delivered, octree_vars>>

\* add_chunk on the callback thread: __setitem__ tests the size.
AddBegin(k, v, size) ==
    /\ Callback.pc = "idle"
    /\ last' = Threads(Gui,
                       IF too_large(size)
                       THEN [Idle EXCEPT !.key = k, !.val = v, !.size = size,
                                         !.result = "ValueError"]
                       ELSE [Idle EXCEPT !.pc = "evict", !.key = k, !.val = v,
                                         !.size = size])
    /\ UNCHANGED others

\* ... pops least recently used entries while there is no room, unless the
\* key is stored with at least this size ...
AddEvict ==
    /\ Callback.pc = "evict"
    /\ LET i    == IndexOf(chunks, CacheKey(Callback.key))
           more == /\ i = 0 \/ chunks[i].size < Callback.size
                   /\ chunks # <<>>
                   /\ SumBytes(chunks) + Callback.size > CacheBytes
       IN  IF more
           THEN /\ chunks' = popitem(chunks)
                /\ UNCHANGED last
           ELSE /\ last' = Threads(Gui, [Callback EXCEPT !.pc = "store"])
                /\ UNCHANGED chunks
    /\ UNCHANGED <<synchronous, cache_enabled, requests, fstate, futures,
                   layer_map, alive, published, delivered, octree_vars>>

\* ... and stores the entry as the most recently used one.
AddStore ==
    /\ Callback.pc = "store"
    /\ chunks' = Append(Without(chunks, CacheKey(Callback.key)),
                        [key  |-> CacheKey(Callback.key),
                         val  |-> Callback.val,
                         size |-> Callback.size])
    /\ last' = Threads(Gui, [Callback EXCEPT !.pc = "idle", !.result = "stored"])
    /\ UNCHANGED <<synchronous, cache_enabled, requests, fstate, futures,
                   layer_map, alive, published, delivered, octree_vars>>

ThreadsNext ==
    \/ \E k \in 1..NumKeys : GetBegin(k)
    \/ GetEnd
    \/ \E k \in 1..NumKeys, size \in 1..(CacheBytes + 1) : AddBegin(k, 1, size)
    \/ AddEvict
    \/ AddStore

ThreadsSpec == Init /\ [][ThreadsNext]_vars

\* QtChunkReceiver between the loader and the image layer.  Its state is kept
\* in the record of the last call: connected (until close()), queue (the
\* chunk_loaded_gui emissions posted to the GUI thread and not yet run),
\* calls (the layer.chunk_loaded calls made, with the thread that made them
\* and whether close() had run) and missed (events emitted after close()).
Receiver ==
    IF last.op = "receiver" THEN last
    ELSE [op |-> "receiver", connected |-> TRUE, queue |-> <<>>,
          calls |-> <<>>, missed |-> <<>>]

\* Mutant: the signal is connected directly, the slot runs in the emitting
\* thread.
chunk_loaded_worker_direct(rcv, r) ==
    [rcv EXCEPT !.calls = Append(@, [request |-> r, thread |-> "worker",
                                     closed |-> FALSE])]

\* _chunk_loaded_worker(event): chunk_loaded_gui.emit(layer, request); the
\* receiver lives in the GUI thread, so the emission from the thread of the
\* done callback is posted to the GUI thread's event queue.
chunk_loaded_worker(rcv, r) == [rcv EXCEPT !.queue = Append(@, r)]

\* events.chunk_loaded(layer, request) in _done: the callbacks connected to
\* the event run; after close() there is none.
emit_chunk_loaded(rcv, r) ==
    IF rcv.connected THEN chunk_loaded_worker(rcv, r)
    ELSE [rcv EXCEPT !.missed = Append(@, r)]

\* The worker returns and _done runs with the receiver listening.
ReceiverFinish(r) ==
    /\ Finish(r)
    /\ last' = IF published' # published
               THEN emit_chunk_loaded(Receiver, r) ELSE Receiver

\* The GUI thread runs the next posted emission:
\* _chunk_loaded_gui(layer, request) calls layer.chunk_loaded(request).
ChunkLoadedGui ==
    /\ Receiver.queue # <<>>
    /\ last' = [Receiver EXCEPT
                   !.queue = Tail(@),
                   !.calls = Append(@, [request |-> Head(Receiver.queue),
                                        thread  |-> "gui",
                                        closed  |-> ~Receiver.connected])]
    /\ UNCHANGED others

\* close(): chunk_loaded_gui.disconnect() and events.chunk_loaded
\* .disconnect().  Whether the emissions already posted still run depends on
\* the Qt binding: either outcome is possible.
Close(posted_still_run) ==
    /\ Receiver.connected
    /\ last' = [Receiver EXCEPT
                   !.connected = FALSE,
                   !.queue = IF posted_still_run THEN @ ELSE <<>>]
    /\ UNCHANGED others

ReceiverNext ==
    \/ \E idx \in Indices : LoadChunk("image", idx, FALSE)
    \/ WorkerStart
    \/ \E r \in DOMAIN fstate : ReceiverFinish(r)
    \/ ChunkLoadedGui
    \/ \E posted_still_run \in BOOLEAN : Close(posted_still_run)

ReceiverSpec == Init /\ [][ReceiverNext]_vars

\* ------------------------------------------------------------ AsyncConfig
\* A config dict holds the JSON values of its keys; a key it does not hold
\* is Missing.  delay_seconds is in tenths of a second.
Missing == 0 - 1
NoKey == "missing"
Config(synchronous_, num_workers_, delay_seconds_) ==
    [synchronous   |-> synchronous_,
     num_workers   |-> num_workers_,
     delay_seconds |-> delay_seconds_]

DEFAULT_SYNC_CONFIG == Config("true", Missing, Missing)
DEFAULT_ASYNC_CONFIG == Config("false", 6, 1)

\* AsyncConfig.synchronous, num_workers, delay_seconds: data.get(key, default).
config_synchronous(cfg) ==
    IF cfg.synchronous = NoKey THEN TRUE ELSE cfg.synchronous = "true"
config_num_workers(cfg) ==
    IF cfg.num_workers = Missing THEN 6 ELSE cfg.num_workers
config_delay_seconds(cfg) ==
    IF cfg.delay_seconds = Missing THEN 1 ELSE cfg.delay_seconds

\* Path(config_path).expanduser().  Path("") is the current directory.
expanduser(p) ==
    IF p = "~/c.json" THEN "/home/c.json"
    ELSE IF p = "" THEN "."
    ELSE p

\* _load_config(config_path) over a file system fs that maps the paths of
\* its files to their JSON content; "." is a directory.
load_config(config_path, fs) ==
    LET path == expanduser(config_path)
    IN  IF path = "." THEN [raised |-> "IsADirectoryError"]
        ELSE IF path \notin DOMAIN fs THEN [raised |-> "FileNotFoundError"]
        ELSE [raised |-> "", data |-> fs[path]]

\* Mutant: a config file that is not there gives the defaults.
get_config_data_or_default(value, fs) ==
    IF value = "unset" \/ value = "0"
    THEN [raised |-> "", data |-> DEFAULT_SYNC_CONFIG]
    ELSE IF value = "1" THEN [raised |-> "", data |-> DEFAULT_ASYNC_CONFIG]
    ELSE IF load_config(value, fs).raised = "FileNotFoundError"
    THEN [raised |-> "", data |-> DEFAULT_SYNC_CONFIG]
    ELSE load_config(value, fs)

\* _get_config_data() with os.getenv("NAPARI_ASYNC") = value ("unset" for
\* None).
get_config_data(value, fs) ==
    IF value = "unset" \/ value = "0"
    THEN [raised |-> "", data |-> DEFAULT_SYNC_CONFIG]
    ELSE IF value = "1" THEN [raised |-> "", data |-> DEFAULT_ASYNC_CONFIG]
    ELSE load_config(value, fs)

\* Configuration at import: any value of NAPARI_ASYNC over any file system.
EnvValues == {"unset", "0", "1", "", "2", "true", "a.json", "~/c.json"}
FilePaths == {"a.json", "/home/c.json"}
FileContents ==
    {Config(sy, nw, ds) : sy \in {NoKey, "true", "false"},
                          nw \in {Missing, 2}, ds \in {Missing, 0}}
FileSystems == UNION {[ps -> FileContents] : ps \in SUBSET FilePaths}

\* async_config = AsyncConfig(_get_config_data())
GetConfig(value, fs) ==
    /\ last.op = "init"
    /\ last' = [op     |-> "config",
                value  |-> value,
                fs     |-> fs,
                result |-> get_config_data(value, fs)]
    /\ UNCHANGED others

ConfigNext == \E value \in EnvValues, fs \in FileSystems : GetConfig(value, fs)

ConfigSpec == Init /\ [][ConfigNext]_vars

\* The octree image with the frames compared: when a pass returns, the
\* record of the last call keeps its visible list and its result together
\* with the slice and the loads completed and delivered so far, and, when
\* the pass before it was over the same list of the same slice with no load
\* completed or delivered since, that pass's result.
Completed == Cardinality({r \in DOMAIN fstate : fstate[r] = "finished"})

Repeats ==
    /\ last.op = "pass"
    /\ last.visible = visible
    /\ last.slice = slice_id
    /\ last.completed = Completed
    /\ last.delivered = delivered

FramePassEnd ==
    /\ PassReturn
    /\ last' = [op        |-> "pass",
                visible   |-> visible,
                drawable  |-> drawable,
                slice     |-> slice_id,
                completed |-> Completed,
                delivered |-> delivered,
                repeats   |-> Repeats,
                before    |-> IF Repeats THEN last.drawable ELSE <<>>]

FrameNext ==
    \/ WorkerStart
    \/ \E r \in DOMAIN fstate : WorkerFinish(r)
    \/ \E r \in DOMAIN fstate : WorkerFail(r)
    \/ DeleteLayer("octree")
    \/ \E vis \in VisibleLists : PassBegin(vis)
    \/ PassStep
    \/ FramePassEnd
    \/ Deliver
    \/ ChangeSlice

FrameSpec == Init /\ [][FrameNext]_vars

\* A steady view in asynchronous mode with the cache enabled: every pass
\* finds all tiles visible, the slice stays, the layer lives and no load
\* fails.  The passes go on for ever; the pool starts every submitted task
\* and every running task ends; the event loop of the GUI thread, which
\* runs the passes, delivers a published event between two passes.  Another
\* layer may load chunks of its own before the first pass.
SteadyInit == Init /\ ~synchronous /\ cache_enabled

AllTiles == [t \in Tiles |-> t]

SteadyPass == PassBegin(AllTiles) \/ PassStep \/ PassEnd

SteadyFinish(r) == r \in DOMAIN fstate /\ WorkerFinish(r)

SteadyOther(idx) ==
    /\ Len(requests) < MaxRequests - NumTiles
    /\ LoadChunk("image", idx, FALSE)

SteadyNext ==
    \/ PassBegin(AllTiles)
    \/ PassStep
    \/ PassEnd
    \/ WorkerStart
    \/ \E r \in DOMAIN fstate : WorkerFinish(r)
    \/ Deliver
    \/ \E idx \in Indices : SteadyOther(idx)

SteadySpec ==
    /\ SteadyInit
    /\ [][SteadyNext]_vars
    /\ WF_vars(SteadyPass)
    /\ WF_vars(WorkerStart)
    /\ \A r \in 1..MaxRequests : WF_vars(SteadyFinish(r))
    /\ SF_vars(Deliver)

\* synchronous_loading(enabled) around a body that loads chunks of a layer.
\* The generator keeps the flag it found in its local previous; phase says
\* whether the body of the with-block is running or the block was left, and
\* raised whether it was left by an exception.
With(phase, enabled, previous, raised) ==
    [op |-> "with", phase |-> phase, enabled |-> enabled,
     previous |-> previous, raised |-> raised]

InBody == last.op = "with" /\ last.phase = "body"

\* The flag when the with-block is left.  contextmanager resumes the
\* generator after its yield when the body ended normally, and throws the
\* body's exception into it at the yield otherwise: the generator has no
\* try statement, so the assignment after the yield is not reached.
synchronous_loading_exit(previous, current, raised) ==
    IF raised THEN current ELSE previous

\* previous = chunk_loader.synchronous; chunk_loader.synchronous = enabled
SyncEnter(enabled) ==
    /\ ~InBody
    /\ synchronous' = enabled
    /\ last' = With("body", enabled, synchronous, FALSE)
    /\ UNCHANGED <<cache_enabled, chunks, requests, fstate, futures,
                   layer_map, alive, published, delivered, octree_vars>>

\* The body ends, normally or by raising, and the block is left.
SyncLeave(raised) ==
    /\ InBody
    /\ synchronous' = synchronous_loading_exit(last.previous, synchronous, raised)
    /\ last' = [last EXCEPT !.phase = "left", !.raised = raised]
    /\ UNCHANGED <<cache_enabled, chunks, requests, fstate, futures,
                   layer_map, alive, published, delivered, octree_vars>>

SyncNext ==
    \/ \E enabled \in BOOLEAN : SyncEnter(enabled)
    \/ \E raised \in BOOLEAN : SyncLeave(raised)
    \/ LoadChunk("image", 1, FALSE)
    \/ WorkerStart
    \/ \E r \in DOMAIN fstate : WorkerFinish(r)

SyncSpec == Init /\ [][SyncNext]_vars

\* on_chunk_loaded alone: any loaded request against any slice and any state
\* of the locations.  The data already in a chunk is that of request 1, the
\* data of the request that of request 2 or 3.
TileStates == {RawTile} \cup {Chunk(d, l) : d \in {Lazy, 1}, l \in BOOLEAN}

OnChunkLoaded(slice, idx, array, current, tiles) ==
    /\ last.op = "init"
    /\ last' = [op      |-> "on_chunk_loaded",
                request |-> ChunkRequest("octree", slice, idx, array),
                current |-> current,
                tiles   |-> tiles,
                result  |-> on_chunk_loaded_at(
                                ChunkRequest("octree", slice, idx, array),
                                current, tiles)]
    /\ UNCHANGED others

SliceNext ==
    \E slice \in 1..MaxSlices, idx \in Tiles, array \in {2, 3},
       current \in 1..MaxSlices, tiles \in [Tiles -> TileStates] :
        OnChunkLoaded(slice, idx, array, current, tiles)

SliceSpec == Init /\ [][SliceNext]_vars

\* ================================================================ claims
\* The number of the request a load_chunk call creates in this step.
NewRequest == Len(requests) + 1

\* How often request r stands in a list of futures or events.
Count(seq, r) == Cardinality({i \in DOMAIN seq : seq[i] = r})

\* The futures that stand for a task handed to the worker pool.
Tasks(fs) == {q \in DOMAIN fs : fs[q] # "none"}

\* C1: when the loader is synchronous, or the request's array is already in
\* memory, load_chunk returns the request with its array materialized, never
\* pending; no task goes to the worker pool, no future state changes and the
\* per-source table of futures stays as it was.
C1_SyncOrInMemoryReturnsRequest ==
    [][\A layer \in Layers, idx \in Indices, m \in BOOLEAN :
          (LoadChunk(layer, idx, m) /\ (synchronous \/ m)) =>
              /\ requests'[NewRequest].ret = "request"
              /\ requests'[NewRequest].array # Lazy
              /\ Tasks(fstate') = Tasks(fstate)
              /\ \A q \in DOMAIN fstate : fstate'[q] = fstate[q]
              /\ futures' = futures]_vars

\* C1 witness: an asynchronous loader returned an in-memory request at once
\* while another request of the same layer was pending, and left it pending.
C1_Witness ==
    /\ ~synchronous
    /\ \E r, q \in DOMAIN requests :
          /\ q < r
          /\ requests[r].layer = requests[q].layer
          /\ requests[r].ret = "request" /\ requests[r].array = r
          /\ fstate[r] = "none"
          /\ fstate[q] = "pending"

\* C2: in asynchronous mode load_chunk of a request whose array is not in
\* memory and whose key is not cached returns pending, sets the 0.1 s delay
\* on the request, hands exactly one task to the pool and appends its future,
\* once, to the list of the request's layer and to no other list.
C2_AsyncMissSubmitsOneTask ==
    [][\A layer \in Layers, idx \in Indices :
          (/\ LoadChunk(layer, idx, FALSE)
           /\ ~synchronous
           /\ get_chunk(chunks, <<layer, 0, idx>>) = Lazy) =>
              /\ requests'[NewRequest].ret = "pending"
              /\ requests'[NewRequest].array = Lazy
              /\ requests'[NewRequest].delay = DELAY_TENTHS
              /\ fstate'[NewRequest] = "pending"
              /\ Tasks(fstate') = Tasks(fstate) \cup {NewRequest}
              /\ Count(futures'[layer], NewRequest) = 1
              /\ futures'[layer][Len(futures'[layer])] = NewRequest
              /\ \A other \in Layers \ {layer} :
                    futures'[other] = futures[other]]_vars

\* C2 witness: a pending request with the delay set, its future in its
\* layer's list.
C2_Witness ==
    \E r \in DOMAIN requests :
        /\ requests[r].ret = "pending"
        /\ requests[r].delay = DELAY_TENTHS
        /\ fstate[r] = "pending"
        /\ Count(futures[requests[r].layer], r) = 1

\* The payloads in the cache.
Cached == {chunks[i].val : i \in DOMAIN chunks}

\* C3: a new asynchronous request of a layer cancels every earlier request
\* of that layer that is still pending (not started), and a cancelled request
\* stays cancelled: it is never run, never put in the cache and never
\* published.
C3_NewRequestCancelsPending ==
    /\ [][\A layer \in Layers, idx \in Indices :
             (LoadChunk(layer, idx, FALSE) /\ ~synchronous) =>
                 \A q \in DOMAIN requests :
                     (requests[q].layer = layer /\ fstate[q] = "pending")
                         => fstate'[q] = "cancelled"]_vars
    /\ [][\A q \in DOMAIN requests :
             fstate[q] = "cancelled" =>
                 /\ fstate'[q] = "cancelled"
                 /\ requests'[q] = requests[q]]_vars
    /\ [](\A q \in DOMAIN requests :
             fstate[q] = "cancelled" =>
                 /\ requests[q].outcome = ""
                 /\ requests[q].array = Lazy
                 /\ q \notin Cached
                 /\ Count(published, q) = 0)

\* C3 witness: a request was cancelled by a later one of its layer, which
\* ran and was published, while a request of the other layer stayed pending.
C3_Witness ==
    \E q, r, o \in DOMAIN requests :
        /\ q < r
        /\ requests[q].layer = requests[r].layer
        /\ requests[o].layer # requests[r].layer
        /\ fstate[q] = "cancelled"
        /\ fstate[r] = "finished" /\ Count(published, r) = 1
        /\ fstate[o] = "pending"

\* C4, as claimed: every request a worker finished without cancellation
\* was published exactly once, and no cancelled request, synchronous load or
\* cache hit was published.
C4_FinishedPublishedOnce ==
    \A r \in DOMAIN requests :
        /\ fstate[r] = "finished" => Count(published, r) = 1
        /\ fstate[r] \in {"cancelled", "none"} => Count(published, r) = 0

\* The tile the pass looks at in this step, and its key.
Tile == visible[pos]
TileKey == ChunkKeyOf(slice_id, Tile)

\* The step of the pass issues no load.
NoLoad == requests' = requests /\ fstate' = fstate /\ futures' = futures

\* The step of the pass issues one load, for the tile it looks at.
OneLoad ==
    /\ Len(requests') = Len(requests) + 1
    /\ requests'[NewRequest].layer = "octree"
    /\ requests'[NewRequest].slice = slice_id
    /\ requests'[NewRequest].idx = Tile

\* C5, as claimed: with asynchronous loading and an empty, enabled cache the
\* pass that first sees a tile gets "pending" and does not draw it; when the
\* worker completes the load while the layer lives, chunk_loaded is published
\* for that request; and once the event is delivered to the current slice
\* the tile holds the loaded data and the next pass that sees it draws it.
C5_AsyncTileBecomesDrawable ==
    /\ [][(/\ PassStep
           /\ ~synchronous /\ cache_enabled /\ chunks = <<>>
           /\ needs_load(data[Tile], loading[Tile])) =>
              /\ OneLoad
              /\ requests'[NewRequest].ret = "pending"
              /\ drawable' = drawable]_vars
    /\ [][\A r \in DOMAIN requests :
             (/\ WorkerFinish(r)
              /\ ~synchronous /\ cache_enabled
              /\ requests[r].layer = "octree" /\ "octree" \in alive) =>
                 /\ published' = Append(published, r)
                 /\ KeyOf(requests'[r]) = KeyOf(requests[r])]_vars
    /\ [][(/\ Deliver
           /\ requests[published[delivered + 1]].layer = "octree"
           /\ on_chunk_loaded(requests[published[delivered + 1]])) =>
              LET req == requests[published[delivered + 1]]
              IN  /\ data'[req.idx] = req.array
                  /\ chunk_in_memory(data'[req.idx])]_vars
    /\ [][(/\ PassStep
           /\ cache_enabled
           /\ chunk_in_memory(data[Tile])) =>
              /\ drawable' = Append(drawable, Tile)
              /\ chunk_in_memory(data'[Tile])]_vars

\* C6, as claimed: a pass draws every visible tile that is in memory and
\* issues no load for it; it does not draw a tile that is being loaded and
\* issues no load for it.
C6_InMemoryAlwaysDrawn ==
    [][PassStep =>
          /\ chunk_in_memory(data[Tile]) =>
                 drawable' = Append(drawable, Tile) /\ NoLoad
          /\ (~chunk_in_memory(data[Tile]) /\ loading[Tile]) =>
                 drawable' = drawable /\ NoLoad]_vars

\* C6, amended: a pass draws every visible tile that is in memory and issues
\* no load for it, unless the cache is disabled and the tile is newly in
\* view: it is then cleared and a load is issued for it.  A tile that is
\* being loaded is not drawn and no load is issued for it.
C6_InMemoryDrawnUnlessCleared ==
    [][PassStep =>
          /\ (/\ chunk_in_memory(data[Tile])
              /\ ~(~cache_enabled /\ TileKey \notin last_visible)) =>
                 drawable' = Append(drawable, Tile) /\ NoLoad
          /\ (/\ chunk_in_memory(data[Tile])
              /\ ~cache_enabled /\ TileKey \notin last_visible) =>
                 /\ OneLoad
                 /\ requests'[NewRequest].cleared
          /\ (~chunk_in_memory(data[Tile]) /\ loading[Tile]) =>
                 drawable' = drawable /\ NoLoad]_vars

\* C6 witness: the pass is over two tiles; the first one, loaded by an
\* earlier pass and delivered since, is drawn, the second one, requested
\* before that and not delivered, is skipped, and no load was issued.
C6_Witness ==
    /\ cache_enabled
    /\ visible = <<1, 2>> /\ pos = 3
    /\ Len(requests) = 2
    /\ requests[1].idx = 2 /\ requests[1].ret = "pending"
    /\ requests[2].idx = 1 /\ requests[2].ret = "pending"
    /\ requests[1].slice = slice_id /\ requests[2].slice = slice_id
    /\ published = <<2>> /\ delivered = 1
    /\ loading[2] /\ ~chunk_in_memory(data[2])
    /\ drawable = <<1>>

\* A pass drew the tile before: a load for it, in this slice, returned its
\* data at once.  (With the cache disabled no tile gets drawn without that.)
DrawnBefore(t) ==
    \E r \in DOMAIN requests :
        /\ requests[r].layer = "octree" /\ requests[r].slice = slice_id
        /\ requests[r].idx = t /\ requests[r].ret = "request"

\* C7, as claimed: with the cache disabled, a pass remembers only tiles it
\* drew and forgets every tile that is not in view; and when a tile that was
\* drawn and has been out of view since is in view again, the pass clears it
\* and issues a new load for it, and what the tile holds afterwards is
\* either nothing (the load is pending, the tile is not drawn) or the data
\* read by the new load, never the data it held before.
C7_DisabledCacheReloads ==
    /\ [][\A vis \in VisibleLists :
             PassBegin(vis) =>
                 last_visible' \subseteq
                     {ChunkKeyOf(slice_id, t) : t \in SeqToSet(vis)}]_vars
    /\ [][PassEnd =>
             last_visible' \ last_visible \subseteq
                 {ChunkKeyOf(slice_id, t) : t \in SeqToSet(drawable)}]_vars
    /\ [][(/\ PassStep
           /\ ~cache_enabled
           /\ DrawnBefore(Tile)
           /\ TileKey \notin last_visible
           /\ chunk_in_memory(data[Tile])) =>
              /\ OneLoad
              /\ requests'[NewRequest].cleared
              /\ data'[Tile] \in {Lazy, NewRequest}
              /\ data'[Tile] # data[Tile]
              /\ loading'[Tile] = (data'[Tile] = Lazy)
              /\ drawable' = IF data'[Tile] = Lazy THEN drawable
                             ELSE Append(drawable, Tile)]_vars

\* C8: get_chunk right after add_chunk(k, v) returns v; a hit makes k the
\* most recently used entry and changes nothing else; and when the insertion
\* after a hit on k evicts exactly one entry while k is not the only entry,
\* the evicted entry is the least recently used one, which is not k, and k
\* stays.
C8_HitRefreshesRecency ==
    /\ [][(/\ last.op = "add_chunk"
           /\ CacheGet(last.key)) => last'.val = last.val]_vars
    /\ [][(/\ last'.op = "get_chunk" /\ last'.val # Lazy
           /\ CacheGet(last'.key)) =>
              /\ chunks'[Len(chunks')].key = CacheKey(last'.key)
              /\ Without(chunks', CacheKey(last'.key)) =
                     Without(chunks, CacheKey(last'.key))
              /\ Len(chunks') = Len(chunks)]_vars
    /\ [][(/\ last.op = "get_chunk" /\ last.val # Lazy
           /\ last'.op = "add_chunk"
           /\ CacheAdd(last'.key, last'.val, last'.size)
           /\ Len(chunks) >= 2
           /\ popitems(chunks, CacheKey(last'.key), last'.size) = 1) =>
              /\ IndexOf(chunks', CacheKey(last.key)) # 0
              /\ chunks[1].key # CacheKey(last.key)
              /\ Evicted(chunks, CacheKey(last'.key)) \subseteq {1}]_vars

\* C8 witness: a hit on the older of two entries of a full cache made it the
\* most recently used one.
C8_Witness ==
    /\ last.op = "get_chunk" /\ last.val # Lazy
    /\ Len(chunks) >= 2
    /\ SumBytes(chunks) = CacheBytes
    /\ chunks[Len(chunks)].key = CacheKey(last.key)
    /\ chunks[Len(chunks)].val = last.val

\* C9: the stored payloads never sum to more than the capacity; an entry
\* that fits is, right after its insertion, in the cache as the most recently
\* used one; and every entry an insertion evicts was less recently used than
\* every other entry that survives it.
C9_EvictionIsLeastRecentFirst ==
    /\ [](SumBytes(chunks) <= CacheBytes)
    /\ [][(/\ last'.op = "add_chunk"
           /\ CacheAdd(last'.key, last'.val, last'.size)) =>
              chunks'[Len(chunks')] =
                  [key |-> CacheKey(last'.key), val |-> last'.val,
                   size |-> last'.size]]_vars
    /\ [][(/\ last'.op = "add_chunk"
           /\ CacheAdd(last'.key, last'.val, last'.size)) =>
              \A i, j \in DOMAIN chunks :
                  (/\ i \in Evicted(chunks, CacheKey(last'.key))
                   /\ chunks[j].key # CacheKey(last'.key)
                   /\ j \notin Evicted(chunks, CacheKey(last'.key))) => i < j]_vars

\* C9 witness: an insertion evicted an entry and another one survived it.
C9_Witness ==
    /\ last.op = "add_chunk"
    /\ last.evicted >= 1
    /\ Len(chunks) >= 2
    /\ SumBytes(chunks) = CacheBytes

\* C10, as claimed: add_chunk of a payload larger than the capacity raises
\* nothing and stores the payload.
C10_OversizeEntryStored ==
    (/\ last.op \in {"add_chunk", "add_chunk_raised"}
     /\ last.size > CacheBytes) =>
        /\ last.op = "add_chunk"
        /\ getitem(chunks, CacheKey(last.key)) = last.val

\* C11, as claimed: while the cache is disabled, add_chunk stores nothing and
\* get_chunk returns nothing, whatever the key.
C11_DisabledCacheIsInert ==
    ~cache_enabled =>
        /\ last.op = "add_chunk" => IndexOf(chunks, CacheKey(last.key)) = 0
        /\ last.op = "get_chunk" => last.val = Lazy

\* C12: two ChunkKeys compare equal exactly when their layer ids, their data
\* levels and their converted indices are equal; so keys made for different
\* layers or for different levels are unequal, and so are keys whose indices
\* differ after conversion.
C12_KeyEqualityIsTripleEquality ==
    last.op = "ChunkKey" =>
        /\ last.eq <=> (/\ last.a.layer_id = last.b.layer_id
                        /\ last.a.data_level = last.b.data_level
                        /\ last.a.indices = last.b.indices)
        /\ last.x[1] # last.y[1] => ~last.eq
        /\ last.x[2] # last.y[2] => ~last.eq
        /\ last.x = last.y => last.eq

\* C12 witness: a key made from a slice equals the key made from the triple
\* the slice converts to, for the same layer and level.
C12_Witness ==
    /\ last.op = "ChunkKey"
    /\ last.x[3] = <<PySlice(0, 1, 1)>> /\ last.y[3] = <<PyTuple(<<0, 1, 1>>)>>
    /\ last.eq

\* C13, as claimed: a ChunkKey can be hashed, so add_chunk under a key and
\* get_chunk under a separately constructed equal key raise nothing and the
\* lookup returns the payload added.
C13_KeyWorksAsCacheKey ==
    /\ [](last.op \in {"add_chunk", "get_chunk"} => ~last.raised)
    /\ [][\A x \in KeyArgs :
             (/\ last.op = "add_chunk"
              /\ ChunkKey_eq(ChunkKey(x[1], x[2], x[3]),
                             ChunkKey(last.x[1], last.x[2], last.x[3]))
              /\ KeyGet(x)) => last'.val = last.val]_vars

\* C14, as claimed: a ChunkKey is never constructed from an index that is
\* neither an int nor a slice, and every slice is stored as its (start,
\* stop, step) triple.
C14_MalformedIndexRejected ==
    last.op = "ChunkKey" =>
        \A i \in DOMAIN last.x[3] :
            /\ last.x[3][i].kind \in {"int", "slice"}
            /\ last.x[3][i].kind = "slice" =>
                   last.a.indices[i] = PyTuple(last.x[3][i].val)

\* trunc(clamp(x / T, 0, N - 1)) of the level coordinate x = n / scale,
\* written out by cases.
TruncClamp(n, num_tiles, tile_size, scale) ==
    IF n < 0 THEN 0
    ELSE IF n >= (num_tiles - 1) * tile_size * scale THEN num_tiles - 1
    ELSE n \div (tile_size * scale)

\* C15: the tile range of a span (lo, hi) with lo <= hi is the integers from
\* trunc(clamp(lo / T, 0, N - 1)) to trunc(clamp(hi / T, 0, N - 1)), both
\* included; with T = 100 the span 150..350 gives tiles 1, 2 and 3 when
\* there are four tiles or more.
C15_TileRangeIsClampedTruncatedSpan ==
    /\ last.op = "tile_range" =>
           RangeSet(last.range) =
               TruncClamp(last.span[1], last.num_tiles, last.tile_size, last.scale)
               ..
               TruncClamp(last.span[2], last.num_tiles, last.tile_size, last.scale)
    /\ \A n \in 4..6 : RangeSet(tile_range(<<150, 350>>, n, 100, 1)) = {1, 2, 3}

\* C15 witness: a span that starts left of the level and ends inside its
\* second tile gives tiles 0 and 1.
C15_Witness ==
    /\ last.op = "tile_range"
    /\ last.span[1] < 0
    /\ last.num_tiles = 2
    /\ RangeSet(last.range) = {0, 1}

\* Does tile t of size T overlap the span (lo, hi) of level coordinates?
\* Its extent is [t * T, (t + 1) * T).
Overlaps(t, span, tile_size, scale) ==
    /\ t * tile_size * scale <= span[2]
    /\ span[1] < (t + 1) * tile_size * scale

\* C16: the tile range of any span (lo, hi) with lo <= hi, inside the level
\* or not, holds only tile indices of the level and holds every tile of the
\* level that overlaps the span.
C16_TileRangeCoversOverlap ==
    last.op = "tile_range" =>
        /\ RangeSet(last.range) \subseteq 0..(last.num_tiles - 1)
        /\ \A t \in 0..(last.num_tiles - 1) :
               Overlaps(t, last.span, last.tile_size, last.scale) =>
                   t \in RangeSet(last.range)

\* C16 witness: a span that ends right of the level and overlaps both of its
\* tiles gives both.
C16_Witness ==
    /\ last.op = "tile_range"
    /\ last.num_tiles = 2
    /\ last.span[2] > 2 * last.tile_size * last.scale
    /\ Overlaps(0, last.span, last.tile_size, last.scale)
    /\ RangeSet(last.range) = {0, 1}

\* Is location a before location b in row-major order?
Before(a, b) == a[1] < b[1] \/ (a[1] = b[1] /\ a[2] < b[2])

\* C17: is_visible(row, col) holds exactly for the rows of the row range
\* and the columns of the column range; get_chunks returns, in row-major
\* order and each once, the chunks of the visible locations: all of them
\* when it creates chunks, and those that existed before when it does not.
C17_GetChunksReturnsVisible ==
    last.op = "get_chunks" =>
        LET vis == {loc \in ((0 - 1)..MaxGrid) \X ((0 - 1)..MaxGrid) :
                       is_visible(loc[1], loc[2], last.row_range, last.col_range)}
        IN  /\ vis = RangeSet(last.row_range) \X RangeSet(last.col_range)
            /\ \A i, j \in DOMAIN last.chunks :
                   i < j => Before(last.chunks[i], last.chunks[j])
            /\ last.create => SeqToSet(last.chunks) = vis
            /\ ~last.create => SeqToSet(last.chunks) = vis \cap last.before

\* C17 witness: after a view of the first row created its two chunks, a view
\* over the whole level returns, without creation, just those two, in order.
C17_Witness ==
    /\ last.op = "get_chunks"
    /\ ~last.create
    /\ RangeSet(last.row_range) = {0, 1} /\ RangeSet(last.col_range) = {0, 1}
    /\ last.chunks = <<<<0, 0>>, <<0, 1>>>>

\* The levels of an octree of n levels that pass the test of
\* _get_octree_level for the recorded call.
Qualifying ==
    {i \in 0..(last.num_levels - 1) :
        last.width < max_tiles * last.tile_size * level_scale(i)}

\* C18 (as stated): with auto_level, _get_octree_level returns the coarsest
\* level whose (w / T) / level_scale is below max_tiles, and the coarsest
\* available level when no level qualifies; with auto_level off it returns
\* the currently set level, which stays as it was.
C18_LevelIsCoarsestQualifying ==
    last.op = "get_octree_level" =>
        IF ~last.auto_level
        THEN last.level = last.current /\ last.octree_level = last.current
        ELSE IF Qualifying = {}
        THEN last.level = last.num_levels - 1
        ELSE /\ last.level \in Qualifying
             /\ \A j \in Qualifying : j <= last.level

\* C18 (amended): with auto_level, _get_octree_level returns the finest
\* level (the lowest index) whose (w / T) / level_scale is below max_tiles,
\* and the coarsest available level when no level qualifies; with auto_level
\* off it returns the currently set level, which stays as it was.
C18_LevelIsFinestQualifying ==
    last.op = "get_octree_level" =>
        IF ~last.auto_level
        THEN last.level = last.current /\ last.octree_level = last.current
        ELSE /\ last.octree_level = last.level
             /\ IF Qualifying = {}
                THEN last.level = last.num_levels - 1
                ELSE /\ last.level \in Qualifying
                     /\ \A j \in Qualifying : last.level <= j

\* A view 12 wide over tiles of size 2 and three levels: level 0 shows 6
\* tiles, level 1 shows 3 and level 2 fewer; level 1 is chosen.
C18_Witness ==
    /\ last.op = "get_octree_level"
    /\ last.auto_level
    /\ last.width = 12 /\ last.tile_size = 2 /\ last.num_levels = 3
    /\ last.current = 2
    /\ Qualifying = {1, 2}
    /\ last.level = 1
    /\ last.octree_level = 1
\* The requests whose worker completes in this step while their layer is
\* deleted or unknown to the loader.
CompletesWithoutLayer ==
    {r \in DOMAIN fstate :
        /\ fstate[r] = "running"
        /\ fstate'[r] = "finished"
        /\ ~(requests[r].layer \in layer_map /\ requests[r].layer \in alive)}

C20_FailedLoadLeavesTileUnloaded ==
    [][\A r \in DOMAIN fstate :
          (/\ fstate[r] = "running"
           /\ fstate'[r] = "failed"
           /\ requests[r].layer = "octree"
           /\ requests[r].slice = slice_id)
          => /\ published' = published
             /\ ~loading'[requests[r].idx]
             /\ needs_load(data'[requests[r].idx],
                           loading'[requests[r].idx])]_vars
\* C21: the chunk_loaded events of one layer are published in the order in
\* which their requests were submitted (requests are numbered in submission
\* order): a later request's event never precedes an earlier one's.
C21_EventsInSubmissionOrder ==
    \A i, j \in DOMAIN published :
        (i < j /\ requests[published[i]].layer = requests[published[j]].layer)
            => published[i] < published[j]
\* C22: loads of the octree layer that never finish do not block the image
\* layer: a request of the image layer that waits for a worker is
\* eventually taken by one (or cancelled by a newer request), however many
\* requests of the octree layer are stuck in their workers.
C22_StuckLayerBlocksNoOther ==
    \A r \in 1..PoolRequests :
        (Len(fstate) >= r /\ requests[r].layer = "image"
                          /\ fstate[r] = "pending")
            ~> (Len(fstate) >= r /\ fstate[r] # "pending")
\* C23: the cache is never inside a lookup of the thread calling load_chunk
\* and inside an insertion of the completion handler at the same time, so a
\* lookup never meets a cache that an insertion is changing.
C23_CacheAccessesSynchronized ==
    /\ ~(Gui.pc # "idle" /\ Callback.pc # "idle")
    /\ Gui.result # "KeyError"
\* The requests of the layer.chunk_loaded calls made so far, in call order.
Called == [i \in DOMAIN Receiver.calls |-> Receiver.calls[i].request]

\* s is t with some elements left out.
RECURSIVE IsSubSeq(_, _)
IsSubSeq(s, t) ==
    IF s = <<>> THEN TRUE
    ELSE IF t = <<>> THEN FALSE
    ELSE IF Head(s) = Head(t) THEN IsSubSeq(Tail(s), Tail(t))
    ELSE IsSubSeq(s, Tail(t))

\* C24 (as stated): every chunk_loaded event published before close() is
\* forwarded to exactly one layer.chunk_loaded call (it has been made or is
\* posted), the calls are made on the GUI thread in publication order, and
\* no call is made after close().
C24_EveryEventForwardedNoneAfterClose ==
    /\ \A i \in DOMAIN Receiver.calls :
           Receiver.calls[i].thread = "gui" /\ ~Receiver.calls[i].closed
    /\ Called \o Receiver.queue \o Receiver.missed = published

\* C24 (amended): every layer.chunk_loaded call is made on the GUI thread;
\* the calls made and posted are events published before close(), each at
\* most once and in publication order; until close() every published event
\* has exactly one call, made or posted; an event published after close()
\* is never forwarded.  (An event posted and not yet run at close() is
\* forwarded after close() or not at all.)
C24_ForwardedOnGuiInOrder ==
    /\ \A i \in DOMAIN Receiver.calls : Receiver.calls[i].thread = "gui"
    /\ IsSubSeq(Called \o Receiver.queue, published)
    /\ \A i, j \in DOMAIN published : i # j => published[i] # published[j]
    /\ Receiver.connected => Called \o Receiver.queue = published
    /\ \A i \in DOMAIN Receiver.missed :
           /\ ~Receiver.connected
           /\ \A j \in DOMAIN Called : Called[j] # Receiver.missed[i]
           /\ \A j \in DOMAIN Receiver.queue :
                  Receiver.queue[j] # Receiver.missed[i]

\* Two events forwarded in publication order, the second one after close(),
\* and a third published after close() and not forwarded.
C24_Witness ==
    /\ Len(published) = 3
    /\ Called = SubSeq(published, 1, 2)
    /\ ~Receiver.calls[1].closed /\ Receiver.calls[2].closed
    /\ Receiver.missed = <<published[3]>>
    /\ Receiver.queue = <<>>
\* C25: NAPARI_ASYNC unset or "0" gives synchronous loading; "1" gives
\* asynchronous loading with 6 workers and a delay of 0.1 s; any other value
\* is the path of the config file, whose content is the configuration, and
\* a path that does not exist raises FileNotFoundError instead of giving
\* defaults.
C25_ConfigFromEnvironment ==
    last.op = "config" =>
        LET res  == last.result
            path == expanduser(last.value)
        IN  IF last.value \in {"unset", "0"}
            THEN res.raised = "" /\ config_synchronous(res.data)
            ELSE IF last.value = "1"
            THEN /\ res.raised = ""
                 /\ ~config_synchronous(res.data)
                 /\ config_num_workers(res.data) = 6
                 /\ config_delay_seconds(res.data) = 1
            ELSE /\ (path # "." /\ path \notin DOMAIN last.fs)
                       <=> res.raised = "FileNotFoundError"
                 /\ path \in DOMAIN last.fs =>
                       res.raised = "" /\ res.data = last.fs[path]

\* NAPARI_ASYNC names a file that is not there while another config file
\* is: FileNotFoundError.
C25_Witness ==
    /\ last.op = "config"
    /\ last.value = "a.json"
    /\ DOMAIN last.fs = {"/home/c.json"}
    /\ last.result.raised = "FileNotFoundError"
\* C26: a step of the pass at a tile that is neither in memory nor being
\* loaded issues exactly one load, for that tile, which is marked as loading
\* when the loader is called; when the loader returns the data the tile
\* holds it, is in memory, is not loading and is appended to the drawable
\* list; when the loader returns pending the tile is loading, not in
\* memory, and is not appended.
C26_UnloadedTileIsLoadedOnce ==
    [][(PassStep /\ needs_load(data[Tile], loading[Tile])) =>
          /\ OneLoad
          /\ requests'[NewRequest].marked
          /\ IF requests'[NewRequest].ret = "pending"
             THEN /\ loading'[Tile]
                  /\ ~chunk_in_memory(data'[Tile])
                  /\ drawable' = drawable
             ELSE /\ data'[Tile] = requests'[NewRequest].array
                  /\ chunk_in_memory(data'[Tile])
                  /\ ~loading'[Tile]
                  /\ drawable' = Append(drawable, Tile)]_vars

\* A pass of a synchronous loader over two tiles that needed a load: each
\* got one request, holds its data and is drawn.
C26_Witness ==
    /\ synchronous
    /\ pos = 3
    /\ visible = <<1, 2>>
    /\ drawable = <<1, 2>>
    /\ Len(requests) = 2
    /\ \A t \in {1, 2} :
           /\ requests[t].idx = t /\ requests[t].marked
           /\ ~requests[t].cleared
           /\ requests[t].ret # "pending"
           /\ data[t] = requests[t].array /\ chunk_in_memory(data[t])
           /\ ~loading[t]
\* The keys of the tiles of a list, for the current slice.
KeysOf(seq) == {ChunkKeyOf(slice_id, t) : t \in SeqToSet(seq)}

C28_DrawableStableSubsequence ==
    /\ pos > 0 => IsSubSeq(drawable, SubSeq(visible, 1, pos - 1))
    /\ last.op = "pass" =>
           /\ IsSubSeq(last.drawable, last.visible)
           /\ last.repeats => last.drawable = last.before

\* Two passes over tiles 1 and 2 with nothing completed in between: both
\* return tile 1 alone, tile 2 being loaded.
C28_Witness ==
    /\ last.op = "pass"
    /\ last.repeats
    /\ last.visible = <<1, 2>>
    /\ last.drawable = <<1>>
    /\ last.before = <<1>>
    /\ loading[2]
\* C29: on_chunk_loaded with a request of another slice than the current
\* one returns False, raises nothing and leaves every location as it was.
C29_OtherSliceDiscarded ==
    (last.op = "on_chunk_loaded" /\ last.request.slice # last.current) =>
        /\ last.result.ret = FALSE
        /\ last.result.raised = ""
        /\ last.result.tiles = last.tiles

\* A request of slice 1 arrives at slice 2 for a chunk that is being loaded
\* there: nothing changes.
C29_Witness ==
    /\ last.op = "on_chunk_loaded"
    /\ last.request.slice = 1 /\ last.current = 2
    /\ last.request.idx = 1
    /\ last.tiles[1] = Chunk(Lazy, TRUE)
    /\ last.result.tiles[1] = Chunk(Lazy, TRUE)
    /\ last.result.ret = FALSE

\* C30: on_chunk_loaded with a request of the current slice puts the
\* request's data into the chunk at the request's location, which is then in
\* memory and needs no load, changes no other location and returns True;
\* when the location holds no OctreeChunk it returns False and changes no
\* location.
C30_CurrentSliceStored ==
    (last.op = "on_chunk_loaded" /\ last.request.slice = last.current) =>
        LET idx   == last.request.idx
            after == last.result.tiles
        IN  IF last.tiles[idx].chunk
            THEN /\ last.result.ret = TRUE
                 /\ last.result.raised = ""
                 /\ after[idx].chunk
                 /\ after[idx].data = last.request.array
                 /\ after[idx].data # Lazy
                 /\ chunk_in_memory(after[idx].data)
                 /\ ~needs_load(after[idx].data, after[idx].loading)
                 /\ \A t \in Tiles \ {idx} : after[t] = last.tiles[t]
            ELSE /\ last.result.ret = FALSE
                 /\ last.result.raised = ""
                 /\ after = last.tiles

\* The data of request 2 arrives for a chunk of the current slice that is
\* being loaded.
C30_Witness ==
    /\ last.op = "on_chunk_loaded"
    /\ last.request.slice = last.current
    /\ last.request.idx = 1 /\ last.request.array = 2
    /\ last.tiles[1] = Chunk(Lazy, TRUE)
    /\ last.result.tiles[1] = Chunk(2, FALSE)
    /\ last.result.ret = TRUE
\* The requests issued for tile t of the current slice.
RequestsOf(t) ==
    {r \in DOMAIN requests :
        /\ requests[r].layer = "octree"
        /\ requests[r].slice = slice_id
        /\ requests[r].idx = t}

\* Request r is in flight: waiting for a worker, in a worker, or completed
\* with its chunk_loaded event not yet delivered.
InFlight(r) ==
    \/ fstate[r] \in {"pending", "running"}
    \/ /\ fstate[r] = "finished"
       /\ \E i \in DOMAIN published : i > delivered /\ published[i] = r

\* C31: every tile that is loading has a request in flight; in particular
\* no tile is loading whose request was cancelled by a later load of the
\* same layer.
C31_LoadingHasRequestInFlight ==
    \A t \in Tiles : loading[t] /\ ~chunk_in_memory(data[t]) =>
        \E r \in RequestsOf(t) : InFlight(r)
\* The status of an OctreeChunk with data d and loading flag l.
status(d, l) ==
    IF chunk_in_memory(d) THEN "IN_MEMORY"
    ELSE IF l THEN "LOADING"
    ELSE "UNLOADED"

Status(t) == status(data[t], loading[t])

\* The status changes of a chunk: load started, load arrived, forced reset.
StatusEdges ==
    {<<"UNLOADED", "LOADING">>, <<"LOADING", "IN_MEMORY">>,
     <<"IN_MEMORY", "UNLOADED">>}

\* Every change of status along the sequence p is one of the edges.
FollowsEdges(p) ==
    \A i \in 1..(Len(p) - 1) : p[i] = p[i + 1] \/ <<p[i], p[i + 1]>> \in StatusEdges

\* The statuses the chunk visible[pos] has during one iteration of the loop
\* of get_drawable_chunks, in the order of the assignments of the code: as
\* found, after the disabled-cache rule, after _load_chunk set the loading
\* flag, and when the iteration ends.
PassStatuses ==
    LET t == visible[pos]
        c == clears(cache_enabled, ChunkKeyOf(slice_id, t) \notin last_visible,
                    data[t])
        d == IF c THEN clear_data(data[t]) ELSE data[t]
        l == IF c THEN FALSE ELSE loading[t]
    IN  <<Status(t), status(d, l)>>
        \o (IF branch(d, l) = "load" THEN <<status(d, TRUE)>> ELSE <<>>)
        \o <<status(data'[t], loading'[t])>>

\* C32: while the slice stays the same, the status of a tile changes only
\* from UNLOADED to LOADING, from LOADING to IN_MEMORY and from IN_MEMORY
\* to UNLOADED: an iteration of a reconciliation pass moves its tile along
\* these edges and leaves the other tiles alone, the disabled-cache rule
\* resets no LOADING tile, and a delivery moves no UNLOADED tile to
\* IN_MEMORY.
C32_StatusFollowsEdges ==
    [][slice_id' = slice_id =>
         IF pos >= 1 /\ pos' = pos + 1
         THEN /\ FollowsEdges(PassStatuses)
              /\ PassStatuses[1] = "LOADING" => PassStatuses[2] = "LOADING"
              /\ \A t \in Tiles \ {visible[pos]} :
                     status(data'[t], loading'[t]) = Status(t)
         ELSE \A t \in Tiles :
                  FollowsEdges(<<Status(t), status(data'[t], loading'[t])>>)]_vars

\* With the cache disabled, a tile was reset and loaded again, a load has
\* arrived through a chunk_loaded event and another tile is still loading.
C32_Witness ==
    /\ \E r \in DOMAIN requests : requests[r].cleared
    /\ delivered >= 1
    /\ \E t \in Tiles : Status(t) = "LOADING"
    /\ \E t \in Tiles : Status(t) = "IN_MEMORY"

\* The keys of the cache entries.
CachedKeys(ch) == {ch[i].key : i \in DOMAIN ch}

\* The requests whose completion handler ran to its end in this step.
Completes == {r \in DOMAIN fstate : fstate[r] = "running" /\ fstate'[r] = "finished"}

\* C33: a load_chunk call adds no cache entry; while a request that
\* load_chunk returned as pending has not been through the completion
\* handler the cache does not hold its key; and when the handler has run
\* for a request the cache holds the request's key.
C33_CacheFilledOnlyByDone ==
    [][/\ Len(requests') > Len(requests) =>
              CachedKeys(chunks') \subseteq CachedKeys(chunks)
       /\ \A r \in DOMAIN fstate' :
              fstate'[r] \in {"pending", "running"} =>
                  KeyOf(requests'[r]) \notin CachedKeys(chunks')
       /\ \A r \in Completes : KeyOf(requests'[r]) \in CachedKeys(chunks')]_vars
\* C34: in asynchronous mode a load_chunk call for an array that is not in
\* memory and whose key is in the cache returns the request with the cached
\* payload; it hands no task to the worker pool and adds no future to the
\* layer's list of futures.
C34_CacheHitReturnsRequest ==
    [][\A layer \in Layers, idx \in Indices :
          (/\ LoadChunk(layer, idx, FALSE)
           /\ ~synchronous
           /\ <<layer, 0, idx>> \in CachedKeys(chunks)) =>
              /\ requests'[NewRequest].ret = "request"
              /\ requests'[NewRequest].array = getitem(chunks, <<layer, 0, idx>>)
              /\ fstate'[NewRequest] = "none"
              /\ Tasks(fstate') = Tasks(fstate)
              /\ SeqToSet(futures'[layer]) \subseteq SeqToSet(futures[layer])
              /\ \A other \in Layers \ {layer} : futures'[other] = futures[other]]_vars

\* An asynchronous load was answered from the cache with the array an
\* earlier request had loaded.
C34_Witness ==
    /\ ~synchronous
    /\ \E r \in DOMAIN requests :
           /\ requests[r].ret = "request"
           /\ requests[r].array \in 1..(r - 1)
           /\ fstate[r] = "none"
\* The requests of the layer that are running in a worker.
Running(layer) ==
    {q \in DOMAIN fstate : fstate[q] = "running" /\ requests[q].layer = layer}

\* _clear_pending drops from the layer's list exactly the futures it could
\* not cancel, so a running request that is no longer in the list of its
\* layer was running when a later load of the layer went through
\* _clear_pending.
Superseded ==
    {q \in DOMAIN fstate :
        /\ fstate[q] = "running"
        /\ q \notin SeqToSet(futures[requests[q].layer])}

\* C35: a load_chunk call neither cancels nor completes a request of the
\* same layer that is running in a worker, so the request is still running
\* when load_chunk has returned; and when such a request later completes,
\* its chunk is in the cache and its own chunk_loaded event is published.
C35_RunningRequestCompletes ==
    [][/\ \A layer \in Layers, idx \in Indices, m \in BOOLEAN :
             LoadChunk(layer, idx, m) =>
                 \A q \in Running(layer) : fstate'[q] = "running"
       /\ \A q \in Completes \cap Superseded :
             /\ KeyOf(requests[q]) \in CachedKeys(chunks')
             /\ published' = Append(published, q)]_vars
\* C36: no list of futures holds a cancelled future, and every future that
\* is still running is in the list of its layer.
C36_NoCancelledFutureListed ==
    /\ \A layer \in Layers : \A i \in DOMAIN futures[layer] :
           fstate[futures[layer][i]] # "cancelled"
    /\ \A q \in DOMAIN fstate :
           fstate[q] = "running" => q \in SeqToSet(futures[requests[q].layer])
\* C37: in a steady view in asynchronous mode with the cache enabled, every
\* visible tile whose chunk fits the cache is eventually returned as
\* drawable by a pass.
C37_VisibleTilesEventuallyDrawable ==
    \A t \in Tiles :
        ~add_chunk_raises(nbytes(t)) => <>(t \in SeqToSet(drawable))
\* The tile of this iteration was visible in the previous pass of the same
\* slice and not drawable then, and is in memory now: its load arrived
\* between the two passes.
ArrivedInView ==
    /\ pos \in 1..Len(visible)
    /\ last.op = "pass"
    /\ last.slice = slice_id
    /\ Tile \in SeqToSet(last.visible) \ SeqToSet(last.drawable)
    /\ chunk_in_memory(data[Tile])

\* C38: with the cache disabled and asynchronous loading, a tile that was
\* visible in the previous pass and whose load arrived since then is
\* returned as drawable by this pass, and it is not cleared and loaded
\* again.
C38_ArrivedTileDrawnNotReloaded ==
    [][(ArrivedInView /\ ~cache_enabled /\ ~synchronous /\ pos' = pos + 1) =>
           /\ drawable' = Append(drawable, Tile)
           /\ requests' = requests
           /\ data'[Tile] = data[Tile]]_vars
\* C39: an asynchronous load_chunk call for an array that is not in memory
\* cancels every pending request of its layer, also when its own key is in
\* the cache and it submits no new work.
C39_CacheHitCancelsPending ==
    [][\A layer \in Layers, idx \in Indices :
          (/\ LoadChunk(layer, idx, FALSE)
           /\ ~synchronous
           /\ <<layer, 0, idx>> \in CachedKeys(chunks)) =>
              /\ Tasks(fstate') = Tasks(fstate)
              /\ \A q \in DOMAIN fstate :
                     (fstate[q] = "pending" /\ requests[q].layer = layer) =>
                         fstate'[q] = "cancelled"]_vars

\* A load was answered from the cache and an earlier request of the same
\* layer, which had not started, is cancelled.
C39_Witness ==
    /\ ~synchronous
    /\ \E q, r \in DOMAIN requests :
           /\ q < r
           /\ requests[q].layer = requests[r].layer
           /\ fstate[q] = "cancelled"
           /\ requests[r].ret = "request"
           /\ requests[r].array \in 1..(r - 1)
           /\ \A x \in (q + 1)..(r - 1) : requests[x].layer # requests[q].layer
\* C40: inside the with-block of synchronous_loading(enabled) the loader's
\* synchronous flag equals enabled, and when the block has been left,
\* normally or by an exception, the flag is what it was before the block.
C40_FlagSetAndRestored ==
    last.op = "with" =>
        /\ last.phase = "body" => synchronous = last.enabled
        /\ last.phase = "left" => synchronous = last.previous
====
